---- MODULE Spec2Model ----
(***************************************************************************)
(* State-machine model of the three on-chain programs of the repository:   *)
(*   anchor/flash_loan   (Borrow / Repay guarded by instruction            *)
(*                        introspection),                                  *)
(*   anchor/escrow       (Make / Take / Refund, Anchor account             *)
(*                        constraints),                                    *)
(*   pinocchio/escrow    (Make / Take / Refund, hand-written checks).      *)
(* The ledger runtime, the token program and the associated-token-account  *)
(* program are modelled at the interface the programs call.                *)
(***************************************************************************)
EXTENDS Integers, Sequences, FiniteSets, TLC

(***************************************************************************)
(* Bounds of the model.                                                    *)
(***************************************************************************)
MaxTxLen == 3
MaxBorrow == 40
PoolInit == 40
BorrowerInit == 2
MaxAmount == 2

(***************************************************************************)
(* Program constants.                                                      *)
(***************************************************************************)
FEE_BPS == 500
BPS_DENOMINATOR == 10000

\* Largest value of the unsigned word that holds a token amount.  u64 in the
\* programs; scaled down here, with the arithmetic kept overflow-checked.
U64_MAX == 4000000

(***************************************************************************)
(* Identities.  A token account is the associated token account of an      *)
(* (owner, mint) pair; its address is that pair (the derivation is         *)
(* injective).                                                             *)
(***************************************************************************)
Wallets == {"alice", "bob"}
Mints == {"mintA", "mintB"}
Seeds == {7}
LoanMint == "mintA"

\* Addresses are triples <<namespace, key, seed>>.
Wallet(w) == <<"wallet", w, 0>>
WalletAddrs == {Wallet(w) : w \in Wallets}

\* The associated token account of (owner, mint).
Ata(owner, mint) == <<owner, mint>>

\* The address the escrow programs derive from ["escrow", maker, seed].
EscrowPda(maker, seed) == <<"escrow", maker, seed>>
PdaAddrs == {EscrowPda(m, s) : m \in Wallets, s \in Seeds}

\* find_program_address(["escrow", maker, seed]): the canonical bump.
BumpOf(maker, seed) == IF maker = "alice" THEN 255 ELSE 254

Absent == -1
NoAcct == <<<<"none", "", 0>>, "none">>
NoData == -1

VARIABLES
    tok,        \* token account (owner, mint) -> balance, Absent when not created
    program,    \* the escrow program deployed at the program id: "anchor" | "pinocchio"
    escrow,     \* escrow address -> EscrowRecord, NoRecord when the account does not exist
    escrowSnap, \* escrow before the last escrow instruction
    call,       \* the last escrow instruction: its name and, when it succeeded, its inputs
    tx,         \* the transaction being executed: signer, len, first and last instruction
    txIdx,      \* index of the next top-level instruction to execute
    txStatus,   \* "idle" | "running" | "committed" | "failed"
    txSnap,     \* tok at the start of the transaction (what a rollback restores)
    txBorrowed, \* amounts of the Borrow calls that returned Ok in this transaction
    txErr,      \* error that failed the transaction, "none" otherwise
    txAttempts  \* account pairs <<acc3, acc4>> of the Borrow calls entered in this transaction

vars == <<tok, program, escrow, escrowSnap, call, tx, txIdx, txStatus, txSnap, txBorrowed, txErr, txAttempts>>

(***************************************************************************)
(* Token program (external collaborator), as the programs invoke it.       *)
(* Every operation returns [err, tok]: err = "none" and the new balances,  *)
(* or the error and the balances untouched.                                *)
(***************************************************************************)
Res(e, t) == [err |-> e, tok |-> t]

Exists(t, a) == a \in DOMAIN t /\ t[a] # Absent

\* Mutant of transfer: the destination is credited and the source is not
\* debited.
transfer_without_debit(t, from, to, authority, amount) ==
    IF ~Exists(t, from) \/ ~Exists(t, to) THEN Res("InvalidAccountData", t)
    ELSE IF t[from] < amount THEN Res("InsufficientFunds", t)
    ELSE IF from[2] # to[2] THEN Res("MintMismatch", t)
    ELSE IF from[1] # authority THEN Res("OwnerMismatch", t)
    ELSE IF from = to \/ amount = 0 THEN Res("none", t)
    ELSE IF t[to] + amount > U64_MAX THEN Res("Overflow", t)
    ELSE Res("none", [t EXCEPT ![to] = @ + amount])

\* Transfer / TransferChecked: both accounts initialised, same mint, the
\* authority owns the source, enough funds.  A self-transfer or a zero amount
\* passes the checks and moves nothing.
transfer(t, from, to, authority, amount) ==
    IF ~Exists(t, from) \/ ~Exists(t, to) THEN Res("InvalidAccountData", t)
    ELSE IF t[from] < amount THEN Res("InsufficientFunds", t)
    ELSE IF from[2] # to[2] THEN Res("MintMismatch", t)
    ELSE IF from[1] # authority THEN Res("OwnerMismatch", t)
    ELSE IF from = to \/ amount = 0 THEN Res("none", t)
    ELSE IF t[to] + amount > U64_MAX THEN Res("Overflow", t)
    ELSE Res("none", [t EXCEPT ![from] = @ - amount, ![to] = @ + amount])

(***************************************************************************)
(* Flash loan: instructions of a transaction.                              *)
(*   prog      program the instruction targets                             *)
(*   disc      data[0..8], the instruction discriminator                   *)
(*   amount    data[8..16] read as a little-endian u64, NoData when the    *)
(*             data is shorter than 16 bytes                               *)
(*   borrower  account 0, acc3 / acc4 the accounts at positions 3 and 4    *)
(*   inner     what an instruction of another program does: nothing, a     *)
(*             cross-program invocation of borrow, or a token transfer     *)
(*             signed by the transaction's signer                          *)
(***************************************************************************)
ProtocolPda == <<"protocol", "", 0>>
ProtocolAta == Ata(ProtocolPda, LoanMint)

BorrowAmounts == {0, 3, MaxBorrow}

\* The offer open on the ledger while the flash-loan transaction runs: bob
\* offers MaxAmount of the loan mint, held by the vault of his escrow address.
OpenOfferPda == EscrowPda("bob", 7)
OpenOfferVault == Ata(OpenOfferPda, LoanMint)
OpenOffer ==
    [live |-> TRUE, seed |-> 7, maker |-> "bob", mint_a |-> LoanMint, mint_b |-> "mintB",
     receive |-> MaxAmount, bump |-> BumpOf("bob", 7)]

\* The token accounts a transaction may pass as borrower_ata.
BorrowerAtas == {Ata(Wallet(w), LoanMint) : w \in Wallets} \cup {OpenOfferVault}

NoInner == [kind |-> "none", amount |-> 0, to |-> NoAcct]

BorrowIxs ==
    [prog : {"flash_loan"}, disc : {"Borrow"}, amount : BorrowAmounts,
     borrower : Wallets,
     acc3 : BorrowerAtas,
     acc4 : {ProtocolAta},
     inner : {NoInner}]

RepayIxs ==
    [prog : {"flash_loan"}, disc : {"Repay"}, amount : {NoData},
     borrower : Wallets,
     acc3 : BorrowerAtas,
     acc4 : {ProtocolAta, Ata(Wallet("alice"), LoanMint)},
     inner : {NoInner}]

InnerCalls ==
    {NoInner}
    \cup [kind : {"borrow"}, amount : BorrowAmounts \ {0}, to : {NoAcct}]
    \cup {[kind |-> "borrow_twice", amount |-> 3, to |-> NoAcct]}
    \cup {[kind |-> "transfer", amount |-> BorrowerInit, to |-> ProtocolAta],
          [kind |-> "transfer", amount |-> MaxBorrow, to |-> Ata(Wallet("bob"), LoanMint)]}

OtherIxs ==
    [prog : {"other"}, disc : {"other"}, amount : {0, MaxBorrow, NoData, 1000000, U64_MAX},
     borrower : {"alice"}, acc3 : {NoAcct}, acc4 : {NoAcct},
     inner : InnerCalls]

AllIxs == BorrowIxs \cup RepayIxs \cup OtherIxs

\* The instruction at index i of the running transaction.  Only the first and
\* the last instruction are ever inspected by another instruction, so they are
\* fixed when the transaction is submitted; the ones in between are drawn
\* when they execute.
IxAt(i) ==
    IF i = 0 THEN {tx.first}
    ELSE IF i = tx.len - 1 THEN {tx.last}
    ELSE AllIxs

(***************************************************************************)
(* #[derive(Accounts)] Loan: the account constraints Anchor checks before  *)
(* borrow or repay runs.  borrower_ata is init_if_needed.                  *)
(***************************************************************************)
Loan(t, signer, ix) ==
    LET borrower_ata == Ata(Wallet(ix.borrower), LoanMint) IN
    IF ix.borrower # signer THEN Res("AccountNotSigner", t)
    ELSE IF ix.acc3 # borrower_ata THEN Res("ConstraintAssociated", t)
    ELSE IF ix.acc4 # ProtocolAta THEN Res("ConstraintAssociated", t)
    ELSE IF ~Exists(t, ProtocolAta) THEN Res("AccountNotInitialized", t)
    ELSE IF Exists(t, borrower_ata) THEN Res("none", t)
    ELSE Res("none", [t EXCEPT ![borrower_ata] = 0])

\* load_current_index_checked: the index of the top-level instruction being
\* executed, also while a cross-program invocation made by it runs.
load_current_index_checked == txIdx

\* load_instruction_at_checked(len - 1)
LastIx == tx.last

\* Mutant of borrow: the last instruction of the transaction is not inspected.
borrow_without_introspection(t, signer, ix, borrow_amount) ==
    LET a == Loan(t, signer, ix)
        moved == transfer(a.tok, ProtocolAta, ix.acc3, ProtocolPda, borrow_amount)
    IN
    IF a.err # "none" THEN Res(a.err, t)
    ELSE IF ~(borrow_amount > 0) THEN Res("InvalidAmount", t)
    ELSE IF moved.err # "none" THEN Res(moved.err, t)
    ELSE IF load_current_index_checked # 0 THEN Res("InvalidIx", t)
    ELSE Res("none", moved.tok)

\* flash_loan::borrow
borrow(t, signer, ix, borrow_amount) ==
    LET a == Loan(t, signer, ix)
        moved == transfer(a.tok, ProtocolAta, ix.acc3, ProtocolPda, borrow_amount)
        repay_ix == LastIx
    IN
    IF a.err # "none" THEN Res(a.err, t)
    ELSE IF ~(borrow_amount > 0) THEN Res("InvalidAmount", t)
    ELSE IF moved.err # "none" THEN Res(moved.err, t)
    ELSE IF load_current_index_checked # 0 THEN Res("InvalidIx", t)
    ELSE IF repay_ix.prog # "flash_loan" THEN Res("InvalidProgram", t)
    ELSE IF repay_ix.disc # "Repay" THEN Res("InvalidIx", t)
    ELSE IF repay_ix.acc3 # ix.acc3 THEN Res("InvalidBorrowerAta", t)
    ELSE IF repay_ix.acc4 # ix.acc4 THEN Res("InvalidProtocolAta", t)
    ELSE Res("none", moved.tok)

\* Mutant of Fee: the division is done before the multiplication.
Fee_divide_first(amount_borrowed) == (amount_borrowed \div BPS_DENOMINATOR) * FEE_BPS

\* fee = floor(amount * 500 / 10000), computed in u128 and cast to u64
Fee(amount_borrowed) == (amount_borrowed * FEE_BPS) \div BPS_DENOMINATOR

\* Mutant of repay: the sum of amount and fee wraps around the word.
repay_wrapping(t, signer, ix) ==
    LET a == Loan(t, signer, ix)
        borrow_ix == tx.first
        amount_borrowed == borrow_ix.amount
        fee == Fee(amount_borrowed)
        total == (amount_borrowed + fee) % (U64_MAX + 1)
    IN
    IF a.err # "none" THEN Res(a.err, t)
    ELSE IF amount_borrowed = NoData THEN Res("Panic", t)
    ELSE transfer(a.tok, ix.acc3, ProtocolAta, Wallet(ix.borrower), total)

\* flash_loan::repay
repay(t, signer, ix) ==
    LET a == Loan(t, signer, ix)
        borrow_ix == tx.first
        amount_borrowed == borrow_ix.amount
        fee == Fee(amount_borrowed)
        total == amount_borrowed + fee
    IN
    IF a.err # "none" THEN Res(a.err, t)
    ELSE IF amount_borrowed = NoData THEN Res("Panic", t)
    ELSE IF total > U64_MAX THEN Res("Overflow", t)
    ELSE transfer(a.tok, ix.acc3, ProtocolAta, Wallet(ix.borrower), total)

(***************************************************************************)
(* Flash loan: the ledger runtime executing one transaction, instruction   *)
(* by instruction, all or nothing.                                         *)
(***************************************************************************)
TokenAccts ==
    {Ata(o, m) : o \in WalletAddrs \cup PdaAddrs \cup {ProtocolPda}, m \in Mints}

NoRecord == [live |-> FALSE, seed |-> 0, maker |-> "", mint_a |-> "", mint_b |-> "",
             receive |-> 0, bump |-> 0]

NoCall == [op |-> "none", err |-> "none"]

\* The flash-loan program runs on a ledger where the escrow program is not
\* invoked and holds one open offer.
EscrowStateAtLoan ==
    /\ program = "none"
    /\ escrow = [p \in PdaAddrs |-> IF p = OpenOfferPda THEN OpenOffer ELSE NoRecord]
    /\ escrowSnap = escrow
    /\ call = NoCall

IdleTx == [signer |-> "alice", len |-> 0, first |-> CHOOSE i \in OtherIxs : TRUE,
           last |-> CHOOSE i \in OtherIxs : TRUE]

\* The programs keep no loan state between transactions: a behaviour runs one
\* transaction from a balance sheet drawn here.
InitLoan ==
    /\ \E alice \in {0, BorrowerInit, 1000000 + Fee(1000000)}, bob \in {Absent, BorrowerInit} :
          tok = [a \in TokenAccts |->
                   IF a = ProtocolAta THEN PoolInit
                   ELSE IF a = Ata(Wallet("alice"), LoanMint) THEN alice
                   ELSE IF a = Ata(Wallet("bob"), LoanMint) THEN bob
                   ELSE IF a = OpenOfferVault THEN MaxAmount
                   ELSE Absent]
    /\ tx = IdleTx
    /\ txIdx = 0
    /\ txStatus = "idle"
    /\ txSnap = tok
    /\ txBorrowed = <<>>
    /\ txErr = "none"
    /\ txAttempts = {}
    /\ EscrowStateAtLoan

\* A signed transaction of 1..MaxTxLen instructions is submitted.
BeginTx ==
    /\ txStatus = "idle"
    /\ \E signer \in Wallets, len \in 1..MaxTxLen, first \in AllIxs, last \in AllIxs :
          /\ len = 1 => last = first
          /\ tx' = [signer |-> signer, len |-> len, first |-> first, last |-> last]
    /\ txIdx' = 0
    /\ txStatus' = "running"
    /\ txSnap' = tok
    /\ txBorrowed' = <<>>
    /\ txErr' = "none"
    /\ txAttempts' = {}
    /\ UNCHANGED <<tok, program, escrow, escrowSnap, call>>

\* The outcome r of the instruction at txIdx: the next instruction on Ok, the
\* whole transaction rolled back on Err.
Step(r, borrowed, attempts) ==
    /\ txAttempts' = attempts
    /\ UNCHANGED <<program, escrow, escrowSnap, call>>
    /\ IF r.err = "none"
         THEN /\ tok' = r.tok
              /\ txIdx' = txIdx + 1
              /\ txBorrowed' = borrowed
              /\ UNCHANGED <<tx, txStatus, txSnap, txErr>>
         ELSE /\ tok' = txSnap
              /\ txStatus' = "failed"
              /\ txErr' = r.err
              /\ UNCHANGED <<tx, txIdx, txSnap, txBorrowed>>

Running == txStatus = "running" /\ txIdx < tx.len

\* The last instruction is a Repay of this program naming acc3 at position 3
\* and acc4 at position 4.
LastIsRepayOf(acc3, acc4) ==
    /\ tx.last.prog = "flash_loan"
    /\ tx.last.disc = "Repay"
    /\ tx.last.acc3 = acc3
    /\ tx.last.acc4 = acc4

\* Mutant of Borrow: the handler does not require borrow_amount > 0, so a
\* Borrow of 0 goes on to the transfer and the introspection checks.
Borrow_accepts_zero ==
    /\ Running
    /\ \E ix \in IxAt(txIdx) :
          LET r == borrow(tok, tx.signer, ix, ix.amount)
              a == Loan(tok, tx.signer, ix)
              zero == IF load_current_index_checked # 0 THEN Res("InvalidIx", tok)
                      ELSE IF ~LastIsRepayOf(ix.acc3, ix.acc4) THEN Res("InvalidIx", tok)
                      ELSE Res("none", a.tok)
          IN
          /\ ix.prog = "flash_loan" /\ ix.disc = "Borrow"
          /\ Step(IF r.err = "InvalidAmount" THEN zero ELSE r,
                  Append(txBorrowed, ix.amount), txAttempts \cup {<<ix.acc3, ix.acc4>>})

\* Top-level Borrow instruction.
Borrow ==
    /\ Running
    /\ \E ix \in IxAt(txIdx) :
          /\ ix.prog = "flash_loan" /\ ix.disc = "Borrow"
          /\ Step(borrow(tok, tx.signer, ix, ix.amount), Append(txBorrowed, ix.amount),
                  txAttempts \cup {<<ix.acc3, ix.acc4>>})

\* Top-level Repay instruction.
Repay ==
    /\ Running
    /\ \E ix \in IxAt(txIdx) :
          /\ ix.prog = "flash_loan" /\ ix.disc = "Repay"
          /\ Step(repay(tok, tx.signer, ix), txBorrowed, txAttempts)

\* The accounts a program passes when it invokes borrow for the signer.
CpiAccounts == [prog |-> "flash_loan", disc |-> "Borrow", amount |-> NoData,
                borrower |-> tx.signer,
                acc3 |-> Ata(Wallet(tx.signer), LoanMint), acc4 |-> ProtocolAta,
                inner |-> NoInner]

\* Instruction of another program that does not touch the token accounts.
OtherProgram ==
    /\ Running
    /\ \E ix \in IxAt(txIdx) :
          /\ ix.prog = "other" /\ ix.inner.kind = "none"
          /\ Step(Res("none", tok), txBorrowed, txAttempts)

\* Instruction of another program that invokes flash_loan::borrow, once or
\* twice in a row.
OtherProgramInvokesBorrow ==
    /\ Running
    /\ \E ix \in IxAt(txIdx) :
          LET once == borrow(tok, tx.signer, CpiAccounts, ix.inner.amount)
              twice == IF once.err = "none"
                       THEN borrow(once.tok, tx.signer, CpiAccounts, ix.inner.amount)
                       ELSE once
          IN
          /\ ix.prog = "other" /\ ix.inner.kind \in {"borrow", "borrow_twice"}
          /\ IF ix.inner.kind = "borrow"
               THEN Step(once, Append(txBorrowed, ix.inner.amount),
                         txAttempts \cup {<<CpiAccounts.acc3, CpiAccounts.acc4>>})
               ELSE Step(twice, txBorrowed \o <<ix.inner.amount, ix.inner.amount>>,
                         txAttempts \cup {<<CpiAccounts.acc3, CpiAccounts.acc4>>})

\* Instruction of another program that moves the signer's own tokens.
OtherProgramTransfers ==
    /\ Running
    /\ \E ix \in IxAt(txIdx) :
          /\ ix.prog = "other" /\ ix.inner.kind = "transfer"
          /\ Step(transfer(tok, Ata(Wallet(tx.signer), LoanMint), ix.inner.to,
                           Wallet(tx.signer), ix.inner.amount), txBorrowed, txAttempts)

\* Every instruction returned Ok: the transaction commits.
Commit ==
    /\ txStatus = "running" /\ txIdx = tx.len
    /\ txStatus' = "committed"
    /\ UNCHANGED <<tok, tx, txIdx, txSnap, txBorrowed, txErr, txAttempts>>
    /\ UNCHANGED <<program, escrow, escrowSnap, call>>

NextLoan ==
    \/ BeginTx
    \/ Borrow
    \/ Repay
    \/ OtherProgram
    \/ OtherProgramInvokesBorrow
    \/ OtherProgramTransfers
    \/ Commit

SpecLoan == InitLoan /\ [][NextLoan]_vars

(***************************************************************************)
(* Flash loan: properties.                                                 *)
(***************************************************************************)
Pool(t) == t[ProtocolAta]

Held(t, a) == IF t[a] = Absent THEN 0 ELSE t[a]

IsBorrowIx(ix) == ix.prog = "flash_loan" /\ ix.disc = "Borrow"

\* The account pairs of the Borrow instructions the transaction is known to
\* contain: those entered so far and those at its first and last position.
BorrowsInTx ==
    txAttempts
    \cup {<<ix.acc3, ix.acc4>> : ix \in {i \in {tx.first, tx.last} : IsBorrowIx(i)}}

\* C1: in a committed transaction in which a Borrow of amount a returned Ok,
\* the pool balance at commit is at least its balance at the start plus
\* floor(a * 500 / 10000).
C1_CommittedLoanRepaidWithFee ==
    txStatus = "committed" =>
        \A i \in 1..Len(txBorrowed) :
            Pool(tok) >= Pool(txSnap) + ((txBorrowed[i] * 500) \div 10000)

\* C2: a transaction that contains a Borrow and whose last instruction is
\* not a Repay of this program naming the Borrow's borrower token account at
\* position 3 and the pool account at position 4 never commits, and once it
\* has failed the pool balance is the one at its start.
C2_BorrowWithoutRepayFails ==
    \A b \in BorrowsInTx :
        ~LastIsRepayOf(b[1], b[2]) =>
            /\ txStatus # "committed"
            /\ txAttempts # {} => (txStatus = "failed" /\ Pool(tok) = Pool(txSnap))

\* C2 witness: a Borrow was entered in a transaction whose last instruction is
\* a Repay naming another borrower token account, and the transaction failed.
C2_Witness ==
    /\ txStatus = "failed"
    /\ txErr = "InvalidBorrowerAta"
    /\ txAttempts # {}
    /\ tx.last.disc = "Repay"

\* The transaction consists of Borrow(a), a > 0, at index 0 and the matching
\* Repay as its second and last instruction, both by the signer.
BorrowThenRepay ==
    /\ tx.len = 2
    /\ IsBorrowIx(tx.first)
    /\ tx.first.amount > 0
    /\ tx.first.borrower = tx.signer
    /\ tx.first.acc3 = Ata(Wallet(tx.signer), LoanMint)
    /\ tx.first.acc4 = ProtocolAta
    /\ tx.last.borrower = tx.signer
    /\ LastIsRepayOf(tx.first.acc3, tx.first.acc4)

\* C3 as stated: every such transaction succeeds with the pool up by the fee.
C3_AsStated ==
    (BorrowThenRepay /\ txStatus \in {"committed", "failed"}) =>
        /\ txStatus = "committed"
        /\ Pool(tok) = Pool(txSnap) + ((tx.first.amount * 500) \div 10000)

\* C3 amended: such a transaction succeeds with the pool up by exactly
\* floor(a * 500 / 10000) provided the pool holds at least a, the borrower's
\* token account holds at least the fee before the transaction and a plus the
\* fee fits the amount word.
C3_BorrowRepayNetsFee ==
    (/\ BorrowThenRepay
     /\ Pool(txSnap) >= tx.first.amount
     /\ Held(txSnap, tx.first.acc3) >= ((tx.first.amount * 500) \div 10000)
     /\ tx.first.amount + ((tx.first.amount * 500) \div 10000) <= U64_MAX) =>
        /\ txStatus # "failed"
        /\ txStatus = "committed" =>
              Pool(tok) = Pool(txSnap) + ((tx.first.amount * 500) \div 10000)

\* C3 witness: a committed Borrow(MaxBorrow) + Repay that paid a nonzero fee.
C3_Witness ==
    /\ BorrowThenRepay
    /\ txStatus = "committed"
    /\ tx.first.amount = MaxBorrow
    /\ Pool(tok) > Pool(txSnap)

(***************************************************************************)
(* Escrow: collaborators.                                                  *)
(***************************************************************************)
\* Result of an escrow instruction: error, token accounts, escrow accounts.
ERes(e, t, es) == [err |-> e, tok |-> t, escrow |-> es]

\* Mutant of create_program_address: the maker key is not what the address
\* is derived from.
create_program_address_other_maker(maker, seed, bump) ==
    IF maker = "alice" THEN EscrowPda("bob", seed) ELSE EscrowPda("alice", seed)

\* create_program_address(["escrow", maker, seed, bump]): the escrow address
\* for the canonical bump, another address otherwise.
create_program_address(maker, seed, bump) ==
    IF maker \in Wallets /\ seed \in Seeds /\ bump = BumpOf(maker, seed)
    THEN EscrowPda(maker, seed)
    ELSE <<"off-escrow", maker, seed>>

\* Associated-token-account program, Create: the account must be the
\* associated account of (wallet, mint) and must not exist yet.
ata_create(t, account, wallet, mint) ==
    IF account # Ata(wallet, mint) THEN Res("InvalidSeeds", t)
    ELSE IF Exists(t, account) THEN Res("IllegalOwner", t)
    ELSE Res("none", [t EXCEPT ![account] = 0])

\* Token program, CloseAccount: by the account's authority, balance zero.
close_account(t, account, authority) ==
    IF ~Exists(t, account) THEN Res("InvalidAccountData", t)
    ELSE IF account[1] # authority THEN Res("OwnerMismatch", t)
    ELSE IF t[account] # 0 THEN Res("NonNativeHasBalance", t)
    ELSE Res("none", [t EXCEPT ![account] = Absent])

\* Mutant of anchor_init_if_needed: the account is created as by init, which
\* fails when it exists already.
anchor_init_always(t, account, wallet, mint) ==
    IF account # Ata(wallet, mint) THEN Res("ConstraintAssociated", t)
    ELSE IF Exists(t, account) THEN Res("AccountAlreadyInUse", t)
    ELSE Res("none", [t EXCEPT ![account] = 0])

\* Anchor init_if_needed with associated_token::mint / ::authority.
anchor_init_if_needed(t, account, wallet, mint) ==
    IF account # Ata(wallet, mint) THEN Res("ConstraintAssociated", t)
    ELSE IF Exists(t, account) THEN Res("none", t)
    ELSE Res("none", [t EXCEPT ![account] = 0])

\* Anchor account with associated_token::mint / ::authority, not init.
anchor_associated(t, account, wallet, mint) ==
    IF ~Exists(t, account) THEN Res("AccountNotInitialized", t)
    ELSE IF account # Ata(wallet, mint) THEN Res("ConstraintAssociated", t)
    ELSE Res("none", t)

\* helpers.rs AssociatedTokenAccount::check
AssociatedTokenAccount_check(t, account, authority, mint) ==
    IF ~Exists(t, account) THEN Res("IllegalOwner", t)
    ELSE IF account # Ata(authority, mint) THEN Res("InvalidSeeds", t)
    ELSE Res("none", t)

\* helpers.rs AssociatedTokenAccount::init
AssociatedTokenAccount_init(t, account, mint, payer, owner) ==
    ata_create(t, account, owner, mint)

\* helpers.rs AssociatedTokenAccount::init_if_needed: the existing account is
\* checked against the payer.
AssociatedTokenAccount_init_if_needed(t, account, mint, payer, owner) ==
    IF AssociatedTokenAccount_check(t, account, payer, mint).err = "none"
    THEN Res("none", t)
    ELSE AssociatedTokenAccount_init(t, account, mint, payer, owner)

(***************************************************************************)
(* Escrow: Make.                                                           *)
(* Inputs a: signer, maker, escrow, mint_a, mint_b, maker_ata_a, vault,    *)
(*           seed, receive, amount.                                        *)
(***************************************************************************)
\* Mutant of NewRecord: the record stores the deposited amount as the amount
\* it asks for.
NewRecord_stores_amount(a, receive) ==
    [live |-> TRUE, seed |-> a.seed, maker |-> a.maker, mint_a |-> a.mint_a,
     mint_b |-> a.mint_b, receive |-> a.amount, bump |-> BumpOf(a.maker, a.seed)]

\* Escrow::set_inner as Make calls it (anchor populate_escrow, pinocchio
\* Make::process).
NewRecord(a, receive) ==
    [live |-> TRUE, seed |-> a.seed, maker |-> a.maker, mint_a |-> a.mint_a,
     mint_b |-> a.mint_b, receive |-> receive, bump |-> BumpOf(a.maker, a.seed)]

\* Mutant of anchor_make: init does not fail on an address already in use.
anchor_make_reinit(t, es, a) ==
    LET vault == ata_create(t, a.vault, a.escrow, a.mint_a)
        deposit == transfer(vault.tok, a.maker_ata_a, a.vault, Wallet(a.maker), a.amount)
    IN
    IF a.maker # a.signer THEN ERes("AccountNotSigner", t, es)
    ELSE IF a.escrow # EscrowPda(a.maker, a.seed) THEN ERes("ConstraintSeeds", t, es)
    ELSE IF anchor_associated(t, a.maker_ata_a, Wallet(a.maker), a.mint_a).err # "none"
         THEN ERes(anchor_associated(t, a.maker_ata_a, Wallet(a.maker), a.mint_a).err, t, es)
    ELSE IF vault.err # "none" THEN ERes(vault.err, t, es)
    ELSE IF ~(a.receive > 0) THEN ERes("InvalidAmount", t, es)
    ELSE IF ~(a.amount > 0) THEN ERes("InvalidAmount", t, es)
    ELSE IF deposit.err # "none" THEN ERes(deposit.err, t, es)
    ELSE ERes("none", deposit.tok, [es EXCEPT ![a.escrow] = NewRecord(a, a.receive)])

\* anchor escrow: Make accounts + make::handler
anchor_make(t, es, a) ==
    LET vault == ata_create(t, a.vault, a.escrow, a.mint_a)
        deposit == transfer(vault.tok, a.maker_ata_a, a.vault, Wallet(a.maker), a.amount)
    IN
    IF a.maker # a.signer THEN ERes("AccountNotSigner", t, es)
    ELSE IF a.escrow # EscrowPda(a.maker, a.seed) THEN ERes("ConstraintSeeds", t, es)
    ELSE IF es[a.escrow].live THEN ERes("AccountAlreadyInUse", t, es)
    ELSE IF anchor_associated(t, a.maker_ata_a, Wallet(a.maker), a.mint_a).err # "none"
         THEN ERes(anchor_associated(t, a.maker_ata_a, Wallet(a.maker), a.mint_a).err, t, es)
    ELSE IF vault.err # "none" THEN ERes(vault.err, t, es)
    ELSE IF ~(a.receive > 0) THEN ERes("InvalidAmount", t, es)
    ELSE IF ~(a.amount > 0) THEN ERes("InvalidAmount", t, es)
    ELSE IF deposit.err # "none" THEN ERes(deposit.err, t, es)
    ELSE ERes("none", deposit.tok, [es EXCEPT ![a.escrow] = NewRecord(a, a.receive)])

\* Mutant of pinocchio_make: the record account is written although the
\* address already holds a record.
pinocchio_make_reinit(t, es, a) ==
    LET ata == AssociatedTokenAccount_check(t, a.maker_ata_a, Wallet(a.maker), a.mint_a)
        vault == AssociatedTokenAccount_init(t, a.vault, a.mint_a, a.maker, a.escrow)
        deposit == transfer(vault.tok, a.maker_ata_a, a.vault, Wallet(a.maker), a.amount)
    IN
    IF a.maker # a.signer THEN ERes("MissingRequiredSignature", t, es)
    ELSE IF ata.err # "none" THEN ERes(ata.err, t, es)
    ELSE IF a.amount = 0 THEN ERes("InvalidInstructionData", t, es)
    ELSE IF a.escrow # EscrowPda(a.maker, a.seed) THEN ERes("MissingRequiredSignature", t, es)
    ELSE IF vault.err # "none" THEN ERes(vault.err, t, es)
    ELSE IF deposit.err # "none" THEN ERes(deposit.err, t, es)
    ELSE ERes("none", deposit.tok, [es EXCEPT ![a.escrow] = NewRecord(a, a.receive)])

\* pinocchio escrow: MakeAccounts::try_from, MakeInstructionData::try_from,
\* Make::try_from, Make::process
pinocchio_make(t, es, a) ==
    LET ata == AssociatedTokenAccount_check(t, a.maker_ata_a, Wallet(a.maker), a.mint_a)
        vault == AssociatedTokenAccount_init(t, a.vault, a.mint_a, a.maker, a.escrow)
        deposit == transfer(vault.tok, a.maker_ata_a, a.vault, Wallet(a.maker), a.amount)
    IN
    IF a.maker # a.signer THEN ERes("MissingRequiredSignature", t, es)
    ELSE IF ata.err # "none" THEN ERes(ata.err, t, es)
    ELSE IF a.amount = 0 THEN ERes("InvalidInstructionData", t, es)
    ELSE IF a.escrow # EscrowPda(a.maker, a.seed) THEN ERes("MissingRequiredSignature", t, es)
    ELSE IF es[a.escrow].live THEN ERes("AccountAlreadyInUse", t, es)
    ELSE IF vault.err # "none" THEN ERes(vault.err, t, es)
    ELSE IF deposit.err # "none" THEN ERes(deposit.err, t, es)
    ELSE ERes("none", deposit.tok, [es EXCEPT ![a.escrow] = NewRecord(a, a.receive)])

(***************************************************************************)
(* Escrow: Take.                                                           *)
(* Inputs a: signer, taker, maker, escrow, mint_a, mint_b, vault,          *)
(*           taker_ata_a, taker_ata_b, maker_ata_b.                        *)
(***************************************************************************)
\* Mutant of Closed: the record account survives the close.
Closed_keeps_record(es, addr) == es

\* The record account is closed: close = maker (anchor), ProgramAccount::close
\* (pinocchio).
Closed(es, addr) == [es EXCEPT ![addr] = NoRecord]

\* anchor escrow: Take accounts, take::handler (transfer_to_maker, then
\* withdraw_and_close_vault), close = maker on exit
anchor_take(t, es, a) ==
    LET rec == es[a.escrow]
        i1 == anchor_init_if_needed(t, a.taker_ata_a, Wallet(a.taker), a.mint_a)
        i2 == anchor_init_if_needed(i1.tok, a.maker_ata_b, Wallet(a.maker), a.mint_b)
        v == anchor_associated(i2.tok, a.vault, a.escrow, a.mint_a)
        tb == anchor_associated(i2.tok, a.taker_ata_b, Wallet(a.taker), a.mint_b)
        pay == transfer(i2.tok, a.taker_ata_b, a.maker_ata_b, Wallet(a.taker), rec.receive)
        authority == create_program_address(a.maker, rec.seed, rec.bump)
        out == transfer(pay.tok, a.vault, a.taker_ata_a, authority, t[a.vault])
        shut == close_account(out.tok, a.vault, authority)
    IN
    IF a.taker # a.signer THEN ERes("AccountNotSigner", t, es)
    ELSE IF ~rec.live THEN ERes("AccountNotInitialized", t, es)
    ELSE IF i1.err # "none" THEN ERes(i1.err, t, es)
    ELSE IF i2.err # "none" THEN ERes(i2.err, i1.tok, es)
    ELSE IF rec.maker # a.maker THEN ERes("InvalidMaker", i2.tok, es)
    ELSE IF rec.mint_a # a.mint_a THEN ERes("InvalidMintA", i2.tok, es)
    ELSE IF rec.mint_b # a.mint_b THEN ERes("InvalidMintB", i2.tok, es)
    ELSE IF authority # a.escrow THEN ERes("ConstraintSeeds", i2.tok, es)
    ELSE IF v.err # "none" THEN ERes(v.err, i2.tok, es)
    ELSE IF tb.err # "none" THEN ERes(tb.err, i2.tok, es)
    ELSE IF pay.err # "none" THEN ERes(pay.err, i2.tok, es)
    ELSE IF out.err # "none" THEN ERes(out.err, pay.tok, es)
    ELSE IF shut.err # "none" THEN ERes(shut.err, out.tok, es)
    ELSE ERes("none", shut.tok, Closed(es, a.escrow))

\* pinocchio escrow: TakeAccounts::try_from, Take::try_from, Take::process
pinocchio_take(t, es, a) ==
    LET rec == es[a.escrow]
        tb == AssociatedTokenAccount_check(t, a.taker_ata_b, Wallet(a.taker), a.mint_b)
        v == AssociatedTokenAccount_check(t, a.vault, a.escrow, a.mint_a)
        i1 == AssociatedTokenAccount_init_if_needed(t, a.taker_ata_a, a.mint_a,
                                                   Wallet(a.taker), Wallet(a.taker))
        i2 == AssociatedTokenAccount_init_if_needed(i1.tok, a.maker_ata_b, a.mint_b,
                                                   Wallet(a.taker), Wallet(a.maker))
        escrow_key == create_program_address(a.maker, rec.seed, rec.bump)
        out == transfer(i2.tok, a.vault, a.taker_ata_a, escrow_key, i2.tok[a.vault])
        shut == close_account(out.tok, a.vault, escrow_key)
        pay == transfer(shut.tok, a.taker_ata_b, a.maker_ata_b, Wallet(a.taker), rec.receive)
    IN
    IF a.taker # a.signer THEN ERes("MissingRequiredSignature", t, es)
    ELSE IF ~rec.live THEN ERes("IllegalOwner", t, es)
    ELSE IF tb.err # "none" THEN ERes(tb.err, t, es)
    ELSE IF v.err # "none" THEN ERes(v.err, t, es)
    ELSE IF i1.err # "none" THEN ERes(i1.err, t, es)
    ELSE IF i2.err # "none" THEN ERes(i2.err, i1.tok, es)
    ELSE IF escrow_key # a.escrow THEN ERes("InvalidAccountOwner", i2.tok, es)
    ELSE IF out.err # "none" THEN ERes(out.err, i2.tok, es)
    ELSE IF shut.err # "none" THEN ERes(shut.err, out.tok, es)
    ELSE IF pay.err # "none" THEN ERes(pay.err, shut.tok, es)
    ELSE ERes("none", pay.tok, Closed(es, a.escrow))

\* Where a successful Take sends the reclaim (rent) balances of the two
\* accounts it closes.  anchor: CloseAccount destination = maker, escrow
\* close = maker.
anchor_take_reclaim(a) == [vault |-> a.maker, record |-> a.maker]

\* pinocchio: CloseAccount destination = maker, ProgramAccount::close(escrow,
\* taker).
pinocchio_take_reclaim(a) == [vault |-> a.maker, record |-> a.taker]

(***************************************************************************)
(* Escrow: Refund.                                                         *)
(* Inputs a: signer, maker, escrow, mint_a, vault, maker_ata_a.            *)
(***************************************************************************)
\* anchor escrow: Refund accounts, refund::handler, close = maker on exit
anchor_refund(t, es, a) ==
    LET rec == es[a.escrow]
        i1 == anchor_init_if_needed(t, a.maker_ata_a, Wallet(a.maker), a.mint_a)
        v == anchor_associated(i1.tok, a.vault, a.escrow, a.mint_a)
        authority == create_program_address(a.maker, rec.seed, rec.bump)
        out == transfer(i1.tok, a.vault, a.maker_ata_a, authority, t[a.vault])
        shut == close_account(out.tok, a.vault, authority)
    IN
    IF a.maker # a.signer THEN ERes("AccountNotSigner", t, es)
    ELSE IF ~rec.live THEN ERes("AccountNotInitialized", t, es)
    ELSE IF i1.err # "none" THEN ERes(i1.err, t, es)
    ELSE IF rec.maker # a.maker THEN ERes("InvalidMaker", i1.tok, es)
    ELSE IF rec.mint_a # a.mint_a THEN ERes("InvalidMintA", i1.tok, es)
    ELSE IF authority # a.escrow THEN ERes("ConstraintSeeds", i1.tok, es)
    ELSE IF v.err # "none" THEN ERes(v.err, i1.tok, es)
    ELSE IF out.err # "none" THEN ERes(out.err, i1.tok, es)
    ELSE IF shut.err # "none" THEN ERes(shut.err, out.tok, es)
    ELSE ERes("none", shut.tok, Closed(es, a.escrow))

\* Mutant of pinocchio_refund: the maker account need not have signed.
pinocchio_refund_unsigned(t, es, a) ==
    LET rec == es[a.escrow]
        i1 == AssociatedTokenAccount_init_if_needed(t, a.maker_ata_a, a.mint_a,
                                                   Wallet(a.maker), Wallet(a.maker))
        escrow_key == create_program_address(a.maker, rec.seed, rec.bump)
        out == transfer(i1.tok, a.vault, a.maker_ata_a, escrow_key, i1.tok[a.vault])
        shut == close_account(out.tok, a.vault, escrow_key)
    IN
    IF ~rec.live THEN ERes("IllegalOwner", t, es)
    ELSE IF i1.err # "none" THEN ERes(i1.err, t, es)
    ELSE IF escrow_key # a.escrow THEN ERes("InvalidAccountOwner", i1.tok, es)
    ELSE IF out.err # "none" THEN ERes(out.err, i1.tok, es)
    ELSE IF shut.err # "none" THEN ERes(shut.err, out.tok, es)
    ELSE ERes("none", shut.tok, Closed(es, a.escrow))

\* pinocchio escrow: RefundAccounts::try_from, Refund::try_from, Refund::process
pinocchio_refund(t, es, a) ==
    LET rec == es[a.escrow]
        i1 == AssociatedTokenAccount_init_if_needed(t, a.maker_ata_a, a.mint_a,
                                                   Wallet(a.maker), Wallet(a.maker))
        escrow_key == create_program_address(a.maker, rec.seed, rec.bump)
        out == transfer(i1.tok, a.vault, a.maker_ata_a, escrow_key, i1.tok[a.vault])
        shut == close_account(out.tok, a.vault, escrow_key)
    IN
    IF a.maker # a.signer THEN ERes("MissingRequiredSignature", t, es)
    ELSE IF ~rec.live THEN ERes("IllegalOwner", t, es)
    ELSE IF i1.err # "none" THEN ERes(i1.err, t, es)
    ELSE IF escrow_key # a.escrow THEN ERes("InvalidAccountOwner", i1.tok, es)
    ELSE IF out.err # "none" THEN ERes(out.err, i1.tok, es)
    ELSE IF shut.err # "none" THEN ERes(shut.err, out.tok, es)
    ELSE ERes("none", shut.tok, Closed(es, a.escrow))

\* Where a successful Refund sends the reclaim (rent) balances of the two
\* accounts it closes.  anchor: CloseAccount destination = maker, escrow
\* close = maker.
anchor_refund_reclaim(a) == [vault |-> a.maker, record |-> a.maker]

\* pinocchio: CloseAccount destination = maker, ProgramAccount::close(escrow,
\* maker).
pinocchio_refund_reclaim(a) == [vault |-> a.maker, record |-> a.maker]

(***************************************************************************)
(* Escrow: the Pinocchio entrypoint.  Instruction data is a sequence of     *)
(* bytes; the accounts are a list whose length each instruction fixes.      *)
(***************************************************************************)
RECURSIVE to_le_bytes(_, _)
\* The first k bytes of n in little-endian order.
to_le_bytes(n, k) == IF k = 0 THEN <<>> ELSE <<n % 256>> \o to_le_bytes(n \div 256, k - 1)

RECURSIVE from_le_bytes(_)
\* u64::from_le_bytes
from_le_bytes(b) == IF b = <<>> THEN 0 ELSE Head(b) + 256 * from_le_bytes(Tail(b))

\* The argument block a client sends for Make: seed, receive, amount.
MakeArgs(seed, receive, amount) ==
    to_le_bytes(seed, 8) \o to_le_bytes(receive, 8) \o to_le_bytes(amount, 8)

\* Mutant of MakeInstructionData_try_from: a block longer than 24 bytes is
\* accepted and its first 24 bytes are decoded.
MakeInstructionData_try_from_longer(data) ==
    IF Len(data) < 24
    THEN [err |-> "InvalidInstructionData", seed |-> 0, receive |-> 0, amount |-> 0]
    ELSE LET seed == from_le_bytes(SubSeq(data, 1, 8))
             receive == from_le_bytes(SubSeq(data, 9, 16))
             amount == from_le_bytes(SubSeq(data, 17, 24))
         IN
         IF amount = 0
         THEN [err |-> "InvalidInstructionData", seed |-> 0, receive |-> 0, amount |-> 0]
         ELSE [err |-> "none", seed |-> seed, receive |-> receive, amount |-> amount]

\* MakeInstructionData::try_from
MakeInstructionData_try_from(data) ==
    IF Len(data) # 24
    THEN [err |-> "InvalidInstructionData", seed |-> 0, receive |-> 0, amount |-> 0]
    ELSE LET seed == from_le_bytes(SubSeq(data, 1, 8))
             receive == from_le_bytes(SubSeq(data, 9, 16))
             amount == from_le_bytes(SubSeq(data, 17, 24))
         IN
         IF amount = 0
         THEN [err |-> "InvalidInstructionData", seed |-> 0, receive |-> 0, amount |-> 0]
         ELSE [err |-> "none", seed |-> seed, receive |-> receive, amount |-> amount]

\* The length of the account list an instruction is sent with: Take names 12
\* accounts, Make 9, Refund 8.
NumAccounts(a) ==
    IF "taker" \in DOMAIN a THEN 12 ELSE IF "mint_b" \in DOMAIN a THEN 9 ELSE 8

\* Make::try_from((data, accounts)) followed by Make::process: the accounts
\* are checked, then the argument block is decoded, then the record and the
\* vault are created.
Make_try_from(t, es, data, a) ==
    LET d == MakeInstructionData_try_from(data) IN
    IF NumAccounts(a) # 9 THEN ERes("NotEnoughAccountKeys", t, es)
    ELSE IF a.maker # a.signer THEN ERes("MissingRequiredSignature", t, es)
    ELSE IF AssociatedTokenAccount_check(t, a.maker_ata_a, Wallet(a.maker), a.mint_a).err # "none"
         THEN ERes(AssociatedTokenAccount_check(t, a.maker_ata_a, Wallet(a.maker),
                                                a.mint_a).err, t, es)
    ELSE IF d.err # "none" THEN ERes(d.err, t, es)
    ELSE pinocchio_make(t, es, [a EXCEPT !.seed = d.seed, !.receive = d.receive,
                                         !.amount = d.amount])

\* lib.rs process_instruction
process_instruction(t, es, instruction_data, a) ==
    IF instruction_data = <<>> THEN ERes("InvalidInstructionData", t, es)
    ELSE LET discriminator == Head(instruction_data)
             data == Tail(instruction_data)
         IN
         IF discriminator = 0 THEN Make_try_from(t, es, data, a)
         ELSE IF discriminator = 1
              THEN IF NumAccounts(a) # 12 THEN ERes("NotEnoughAccountKeys", t, es)
                   ELSE pinocchio_take(t, es, a)
         ELSE IF discriminator = 2
              THEN IF NumAccounts(a) # 8 THEN ERes("NotEnoughAccountKeys", t, es)
                   ELSE pinocchio_refund(t, es, a)
         ELSE ERes("InvalidInstructionData", t, es)

(***************************************************************************)
(* Escrow: the ledger.  Every instruction is its own transaction: it is    *)
(* applied when it returns Ok and rolled back when it returns Err.         *)
(***************************************************************************)
MakeInputs ==
    {[signer |-> sg, maker |-> mk, escrow |-> e, mint_a |-> ms[1], mint_b |-> ms[2],
      maker_ata_a |-> Ata(Wallet(mk), ms[1]), vault |-> Ata(e, ms[1]),
      seed |-> sd, receive |-> r, amount |-> am] :
        sg \in Wallets, mk \in Wallets, e \in PdaAddrs,
        ms \in {<<"mintA", "mintB">>, <<"mintB", "mintA">>},
        sd \in Seeds, r \in {0, MaxAmount}, am \in 0..MaxAmount}

TakeInputs ==
    {[signer |-> sg, taker |-> tk, maker |-> mk, escrow |-> e, mint_a |-> ma,
      mint_b |-> mb, vault |-> Ata(e, ma), taker_ata_a |-> Ata(Wallet(tk), ma),
      taker_ata_b |-> Ata(Wallet(tk), mb), maker_ata_b |-> Ata(Wallet(w), mb)] :
        sg \in Wallets, tk \in Wallets, mk \in Wallets, e \in PdaAddrs,
        ma \in Mints, mb \in Mints, w \in Wallets}

RefundInputs ==
    {[signer |-> sg, maker |-> mk, escrow |-> e, mint_a |-> ma,
      vault |-> Ata(v, vm), maker_ata_a |-> Ata(Wallet(mk), ma)] :
        sg \in Wallets, mk \in Wallets, e \in PdaAddrs, ma \in Mints,
        v \in PdaAddrs, vm \in Mints}

\* Instruction data that names no instruction, and Make data whose argument
\* block is empty, one byte short or one byte long.
MalformedData ==
    {<<>>, <<3>>, <<255>>, <<0>>,
     <<0>> \o SubSeq(MakeArgs(7, MaxAmount, MaxAmount), 1, 23),
     <<0>> \o MakeArgs(7, MaxAmount, MaxAmount) \o <<0>>}

\* The accounts malformed data is sent with: those of a Make (the arguments
\* travel in the data, so one choice of them is kept).
MalformedInputs == {a \in MakeInputs : a.receive = MaxAmount /\ a.amount = MaxAmount}

\* The instruction as the client of each program sends it.
make(t, es, a) ==
    IF program = "anchor" THEN anchor_make(t, es, a)
    ELSE process_instruction(t, es, <<0>> \o MakeArgs(a.seed, a.receive, a.amount), a)
take(t, es, a) ==
    IF program = "anchor" THEN anchor_take(t, es, a)
    ELSE process_instruction(t, es, <<1>>, a)
refund(t, es, a) ==
    IF program = "anchor" THEN anchor_refund(t, es, a)
    ELSE process_instruction(t, es, <<2>>, a)
take_reclaim(a) ==
    IF program = "anchor" THEN anchor_take_reclaim(a) ELSE pinocchio_take_reclaim(a)
refund_reclaim(a) ==
    IF program = "anchor" THEN anchor_refund_reclaim(a) ELSE pinocchio_refund_reclaim(a)

NoArgs == [signer |-> ""]

\* What the log of a failed instruction shows of its inputs.
FailArgs(a) == [signer |-> a.signer, maker |-> a.maker, escrow |-> a.escrow]

\* No instruction result is pending: the ledger takes the next transaction.
Quiescent == call.op = "none"

\* Mutant of Apply: what a failed instruction did before it failed is kept.
Apply_without_rollback(op, a, r) ==
    /\ Quiescent
    /\ txSnap' = tok
    /\ escrowSnap' = escrow
    /\ tok' = r.tok
    /\ escrow' = r.escrow
    /\ call' = [op |-> op, err |-> r.err, a |-> IF r.err = "none" THEN a ELSE FailArgs(a)]
    /\ UNCHANGED <<program, tx, txIdx, txStatus, txBorrowed, txErr, txAttempts>>

\* The runtime applies the outcome r of instruction op with inputs a.
Apply(op, a, r) ==
    /\ Quiescent
    /\ txSnap' = tok
    /\ escrowSnap' = escrow
    /\ IF r.err = "none"
         THEN /\ tok' = r.tok
              /\ escrow' = r.escrow
              /\ call' = [op |-> op, err |-> "none", a |-> a]
         ELSE /\ UNCHANGED <<tok, escrow>>
              /\ call' = [op |-> op, err |-> r.err, a |-> FailArgs(a)]
    /\ UNCHANGED <<program, tx, txIdx, txStatus, txBorrowed, txErr, txAttempts>>

InitEscrow ==
    /\ program \in {"anchor", "pinocchio"}
    /\ tok = [a \in TokenAccts |->
                IF a \in {Ata(Wallet("alice"), "mintA"), Ata(Wallet("bob"), "mintB")}
                THEN MaxAmount
                ELSE IF a = Ata(Wallet("alice"), "mintB") THEN 0
                ELSE Absent]
    /\ escrow = [p \in PdaAddrs |-> NoRecord]
    /\ escrowSnap = escrow
    /\ call = [op |-> "none", err |-> "none", a |-> NoArgs]
    /\ tx = IdleTx
    /\ txIdx = 0
    /\ txStatus = "idle"
    /\ txSnap = tok
    /\ txBorrowed = <<>>
    /\ txErr = "none"
    /\ txAttempts = {}

Make == \E a \in MakeInputs : Apply("Make", a, make(tok, escrow, a))

Take == \E a \in TakeInputs : Apply("Take", a, take(tok, escrow, a))

Refund == \E a \in RefundInputs : Apply("Refund", a, refund(tok, escrow, a))

\* The Pinocchio program is sent malformed instruction data with the accounts
\* of a Make.
Malformed ==
    /\ program = "pinocchio"
    /\ \E d \in MalformedData, a \in MalformedInputs :
          Apply("Malformed", a, process_instruction(tok, escrow, d, a))

\* The result of the last instruction has been observed.
Observe ==
    /\ ~Quiescent
    /\ call' = [op |-> "none", err |-> "none", a |-> NoArgs]
    /\ txSnap' = tok
    /\ escrowSnap' = escrow
    /\ UNCHANGED <<tok, escrow, program, tx, txIdx, txStatus, txBorrowed, txErr, txAttempts>>

\* A transaction outside the escrow program changes token accounts only.
Outside(t) ==
    /\ Quiescent
    /\ tok' = t
    /\ txSnap' = t
    /\ UNCHANGED <<escrow, escrowSnap, call, program, tx, txIdx, txStatus, txBorrowed,
                   txErr, txAttempts>>

\* Anyone creates an associated token account of the address of an open offer.
CreateAta ==
    \E o \in PdaAddrs, m \in Mints :
        LET r == ata_create(tok, Ata(o, m), o, m) IN
        /\ escrow[o].live
        /\ r.err = "none"
        /\ Outside(r.tok)

\* A wallet sends one of its own tokens to a token account of the address of an
\* open offer.
Deposit ==
    \E w \in Wallets, o \in PdaAddrs, m \in Mints :
        LET r == transfer(tok, Ata(Wallet(w), m), Ata(o, m), Wallet(w), 1) IN
        /\ escrow[o].live
        /\ r.err = "none"
        /\ Outside(r.tok)

Next ==
    \/ Make
    \/ Take
    \/ Refund
    \/ Malformed
    \/ Observe
    \/ CreateAta
    \/ Deposit

Spec == InitEscrow /\ [][Next]_vars

(***************************************************************************)
(* The ledger with either deployment: the flash-loan program executing one *)
(* transaction, or one of the two escrow programs.                         *)
(***************************************************************************)
InitBoth == InitLoan \/ InitEscrow

NextBoth ==
    \/ program = "none" /\ NextLoan
    \/ program # "none" /\ Next

SpecBoth == InitBoth /\ [][NextBoth]_vars

(***************************************************************************)
(* Escrow: properties.  call, txSnap and escrowSnap hold the last          *)
(* instruction, and the token and escrow accounts it started from.         *)
(***************************************************************************)
Done(op) == call.op = op /\ call.err = "none"

Failed(op) == call.op = op /\ call.err # "none"

\* The record the last instruction was pointed at, as it was before it ran.
RecordBefore == escrowSnap[call.a.escrow]

\* The vault Make created for the record at address p.
VaultOf(p, rec) == Ata(p, rec.mint_a)

\* C4: after a successful Take by a taker other than the maker, the taker's
\* mint_b account holds the record's receive amount less and the mint_b
\* account owned by the record's maker holds that amount more.
C4_TakePaysMaker ==
    (Done("Take") /\ call.a.taker # RecordBefore.maker) =>
        LET rec == RecordBefore
            makerB == Ata(Wallet(rec.maker), rec.mint_b)
            takerB == Ata(Wallet(call.a.taker), rec.mint_b)
        IN
        /\ Held(tok, makerB) = Held(txSnap, makerB) + rec.receive
        /\ Held(tok, takerB) = Held(txSnap, takerB) - rec.receive

\* C5: no Take succeeds when the supplied maker, mint_a or mint_b differs
\* from the one stored in the record, and a Take that fails leaves the token
\* accounts and the records as they were.
C5_TakeChecksRecord ==
    /\ Done("Take") =>
          /\ call.a.maker = RecordBefore.maker
          /\ call.a.mint_a = RecordBefore.mint_a
          /\ call.a.mint_b = RecordBefore.mint_b
    /\ Failed("Take") => (tok = txSnap /\ escrow = escrowSnap)

\* The accounts of a Take by taker tk of the offer opened by the Make with
\* inputs m.
TakeOf(m, tk) ==
    [signer |-> tk, taker |-> tk, maker |-> m.maker, escrow |-> m.escrow,
     mint_a |-> m.mint_a, mint_b |-> m.mint_b, vault |-> m.vault,
     taker_ata_a |-> Ata(Wallet(tk), m.mint_a), taker_ata_b |-> Ata(Wallet(tk), m.mint_b),
     maker_ata_b |-> Ata(Wallet(m.maker), m.mint_b)]

\* C6: right after a successful Make(seed, receive, amount) with receive > 0,
\* Take by another wallet holding at least receive of mint_b succeeds, the
\* maker gains receive of mint_b, the taker gains amount of mint_a and loses
\* receive of mint_b, and the record and the vault are gone.
C6_MakeThenTake ==
    (Done("Make") /\ call.a.receive > 0) =>
        \A tk \in Wallets \ {call.a.maker} :
            LET m == call.a
                a == TakeOf(m, tk)
                r == take(tok, escrow, a)
            IN
            Held(tok, a.taker_ata_b) >= m.receive =>
                /\ r.err = "none"
                /\ Held(r.tok, a.maker_ata_b) = Held(tok, a.maker_ata_b) + m.receive
                /\ Held(r.tok, a.taker_ata_b) = Held(tok, a.taker_ata_b) - m.receive
                /\ Held(r.tok, a.taker_ata_a) = Held(tok, a.taker_ata_a) + m.amount
                /\ ~r.escrow[m.escrow].live
                /\ ~Exists(r.tok, m.vault)

\* C7: a successful Refund by the recorded maker hands the maker everything
\* the offer's vault holds, so the deposit of the Make is back in the maker's
\* mint_a account and the vault is gone.
C7_RefundRestoresDeposit ==
    (Done("Refund") /\ call.a.signer = RecordBefore.maker) =>
        LET rec == RecordBefore
            makerA == Ata(Wallet(rec.maker), rec.mint_a)
            vault == VaultOf(call.a.escrow, rec)
        IN
        /\ Held(tok, makerA) = Held(txSnap, makerA) + Held(txSnap, vault)
        /\ ~Exists(tok, vault)

\* The errors of the authorization class: missing signer, wrong maker,
\* address derivation mismatch.
AuthErrors ==
    {"AccountNotSigner", "MissingRequiredSignature", "InvalidMaker", "ConstraintSeeds",
     "InvalidAccountOwner"}

C9_RecordOutlivesDeposit ==
    \A p \in PdaAddrs :
        (escrowSnap[p].live /\ ~escrow[p].live) => ~Exists(tok, VaultOf(p, escrowSnap[p]))

\* A Make signed by its maker for the derived address of (maker, seed) while
\* an offer is open there.
SecondMake ==
    /\ call.op = "Make"
    /\ call.a.signer = call.a.maker
    /\ call.a.escrow \in PdaAddrs
    /\ call.a.escrow = EscrowPda(call.a.maker, escrowSnap[call.a.escrow].seed)
    /\ escrowSnap[call.a.escrow].live

\* C10 as stated: every second Make fails with the collision error.
C10_AsStated == SecondMake => call.err = "AccountAlreadyInUse"

\* The Make inputs that pass every check made before the record is created.
WellFormedMake(t, a) ==
    /\ a.signer = a.maker
    /\ a.escrow = EscrowPda(a.maker, a.seed)
    /\ a.amount > 0
    /\ Exists(t, a.maker_ata_a)

\* C10 amended: while an offer is open for (maker, seed), a second Make for
\* it fails and leaves the record, the vault and the balances as they were,
\* and it fails with the collision error when the maker signed, the deposit
\* is nonzero and the maker's mint_a account exists.
C10_SecondMakeFails ==
    /\ SecondMake =>
          /\ call.err # "none"
          /\ tok = txSnap
          /\ escrow = escrowSnap
    /\ Quiescent =>
          \A a \in MakeInputs :
              (escrow[a.escrow].live /\ WellFormedMake(tok, a)) =>
                  make(tok, escrow, a).err = "AccountAlreadyInUse"

\* C10 witness: a second Make was rejected as a collision while the first
\* offer's vault holds its deposit.
C10_Witness ==
    /\ SecondMake
    /\ call.err = "AccountAlreadyInUse"
    /\ Held(tok, VaultOf(call.a.escrow, RecordBefore)) > 0

\* C11: a Take or Refund pointed at an address that holds no record fails
\* and moves nothing; a successful Take or Refund destroys the record it was
\* pointed at and no other; a record is destroyed only by a successful Take
\* or Refund pointed at it.
C11_SettledOnce ==
    /\ (call.op \in {"Take", "Refund"} /\ ~RecordBefore.live) =>
          /\ call.err # "none"
          /\ tok = txSnap
          /\ escrow = escrowSnap
    /\ (Done("Take") \/ Done("Refund")) =>
          /\ RecordBefore.live
          /\ ~escrow[call.a.escrow].live
          /\ \A p \in PdaAddrs \ {call.a.escrow} : escrow[p] = escrowSnap[p]
    /\ \A p \in PdaAddrs :
          (escrowSnap[p].live /\ ~escrow[p].live) =>
              (Done("Take") \/ Done("Refund")) /\ call.a.escrow = p

\* C11 witness: bob holds mintA, which only a Take of an offer gives him, and
\* a later Refund of an address that holds no record any more was rejected.
C11_Witness ==
    /\ Failed("Refund")
    /\ ~RecordBefore.live
    /\ call.a.signer = call.a.maker
    /\ call.a.escrow = EscrowPda(call.a.maker, 7)
    /\ Held(tok, Ata(Wallet("bob"), "mintA")) > 0
    /\ \A p \in PdaAddrs : ~escrow[p].live

C13_MakeRejectsZero ==
    /\ Done("Make") => (call.a.receive > 0 /\ call.a.amount > 0)
    /\ \A p \in PdaAddrs : escrow[p].live => escrow[p].receive > 0

\* The accounts of a Take by taker tk of the open offer at address p.
TakeOfRecord(p, tk) ==
    TakeOf([maker |-> escrow[p].maker, escrow |-> p, mint_a |-> escrow[p].mint_a,
            mint_b |-> escrow[p].mint_b, vault |-> VaultOf(p, escrow[p])], tk)

\* C14: for every open offer, a Take with the offer's accounts by a taker
\* whose mint_b account holds the receive amount succeeds, whether or not the
\* taker's mint_a account and the maker's mint_b account exist already.
C14_TakeWithOrWithoutAccounts ==
    \A p \in PdaAddrs, tk \in Wallets :
        LET a == TakeOfRecord(p, tk) IN
        (/\ escrow[p].live
         /\ Exists(tok, a.taker_ata_b)
         /\ tok[a.taker_ata_b] >= escrow[p].receive) =>
            take(tok, escrow, a).err = "none"

\* C15: no Refund succeeds with a mint other than the record's mint_a or
\* with a vault other than the record's vault, and a Refund that fails leaves
\* the token accounts and the records as they were.
C15_RefundChecksMintAndVault ==
    /\ Done("Refund") =>
          /\ call.a.mint_a = RecordBefore.mint_a
          /\ call.a.vault = VaultOf(call.a.escrow, RecordBefore)
    /\ Failed("Refund") => (tok = txSnap /\ escrow = escrowSnap)

\* The transaction is an instruction of another program that moves no tokens
\* followed by a Repay of the signer with the right accounts, so that Repay
\* computes its total from the amount in the first instruction's data.
RepayOfPayload ==
    /\ tx.len = 2
    /\ tx.first.prog = "other"
    /\ tx.first.inner.kind = "none"
    /\ tx.first.amount # NoData
    /\ tx.last.borrower = tx.signer
    /\ LastIsRepayOf(Ata(Wallet(tx.signer), LoanMint), ProtocolAta)
    /\ txStatus \in {"committed", "failed"}

\* C16: fee(1000000) = 50000 and fee(3) = 0; a Repay of amount a moves
\* exactly a + floor(a * 500 / 10000) from the borrower to the pool when that
\* total fits the amount word, and fails with the overflow error, moving
\* nothing, when it does not.
C16_RepayFeeChecked ==
    /\ Fee(1000000) = 50000
    /\ Fee(3) = 0
    /\ RepayOfPayload =>
          LET a == tx.first.amount
              total == a + ((a * 500) \div 10000)
          IN
          IF total > U64_MAX
          THEN txStatus = "failed" /\ txErr = "Overflow" /\ tok = txSnap
          ELSE /\ txErr # "Overflow"
               /\ txStatus = "committed" => Pool(tok) = Pool(txSnap) + total

\* C16 witness: a Repay of 1000000 committed and the pool gained 1050000.
C16_Witness ==
    /\ RepayOfPayload
    /\ txStatus = "committed"
    /\ tx.first.amount = 1000000
    /\ Pool(tok) = Pool(txSnap) + 1050000

\* C16, overflow case reached: a Repay of the largest amount was rejected
\* with the overflow error.
C16_OverflowReached ==
    /\ RepayOfPayload
    /\ tx.first.amount = U64_MAX
    /\ txErr = "Overflow"

\* C17: a transaction whose last instruction is a Repay commits only if its
\* instruction at index 0 is a Borrow of this program.
C17_RepayRequiresBorrow ==
    (/\ txStatus = "committed"
     /\ tx.last.prog = "flash_loan"
     /\ tx.last.disc = "Repay") => IsBorrowIx(tx.first)

\* C18: a committed transaction in which a Borrow returned Ok has a Borrow
\* of this program as its instruction at index 0, and no more than one
\* Borrow returned Ok in it.
C18_BorrowOnlyAtIndexZero ==
    (txStatus = "committed" /\ Len(txBorrowed) > 0) =>
        /\ IsBorrowIx(tx.first)
        /\ Len(txBorrowed) = 1

\* C19: when the payment of a Take of an open offer fails for lack of funds,
\* the vault is, at that point of the instruction, as it was before the
\* Take: the payment is issued before the vault is debited or closed.
C19_PaymentBeforeVault ==
    \A a \in TakeInputs :
        LET r == take(tok, escrow, a) IN
        (escrow[a.escrow].live /\ r.err = "InsufficientFunds") =>
            r.tok[a.vault] = tok[a.vault]

\* C20: a successful Take pays the reclaim balance of the vault to the
\* record's maker and the reclaim balance of the record to the taker.
C20_TakeReclaim ==
    Done("Take") =>
        /\ take_reclaim(call.a).vault = RecordBefore.maker
        /\ take_reclaim(call.a).record = call.a.taker

\* The token accounts of the escrow addresses are in t as they are in tok.
VaultsUntouched(t) ==
    \A p \in PdaAddrs, m \in Mints : t[Ata(p, m)] = tok[Ata(p, m)]

\* The address derived from the supplied maker and the record's seed is not
\* the supplied escrow address, which holds a record.
DerivationMismatch(a) ==
    /\ escrow[a.escrow].live
    /\ EscrowPda(a.maker, escrow[a.escrow].seed) # a.escrow

\* C21: whenever the ledger takes the next instruction, a Take or a Refund
\* whose supplied maker does not derive, with the record's seed and bump, the
\* supplied escrow address returns an error, and at the point where it fails
\* no token account of an escrow address has been debited or closed; no Take
\* or Refund succeeds with such a maker.
C21_DerivationChecked ==
    /\ Quiescent =>
          \A a \in TakeInputs :
              DerivationMismatch(a) =>
                  LET r == take(tok, escrow, a) IN r.err # "none" /\ VaultsUntouched(r.tok)
    /\ Quiescent =>
          \A a \in RefundInputs :
              DerivationMismatch(a) =>
                  LET r == refund(tok, escrow, a) IN r.err # "none" /\ VaultsUntouched(r.tok)
    /\ (Done("Take") \/ Done("Refund")) =>
          EscrowPda(call.a.maker, RecordBefore.seed) = call.a.escrow

\* C21 witness: the pinocchio Take of a funded offer, signed by the taker and
\* naming another wallet as maker, was rejected by the derivation check.
C21_Witness ==
    /\ Failed("Take")
    /\ program = "pinocchio"
    /\ call.err = "InvalidAccountOwner"
    /\ RecordBefore.live
    /\ call.a.maker # RecordBefore.maker
    /\ Held(tok, VaultOf(call.a.escrow, RecordBefore)) > 0

\* The step settles the offer at p: a Take or a Refund pointed at p returns Ok.
Settles(p) ==
    /\ Quiescent
    /\ call'.op \in {"Take", "Refund"}
    /\ call'.err = "none"
    /\ call'.a.escrow = p

\* The step leaves the offer at p as it is: the six fields of its record are
\* unchanged and its vault still exists and holds no less.
LeavesOpen(p) ==
    /\ escrow'[p] = escrow[p]
    /\ Exists(tok', VaultOf(p, escrow[p]))
    /\ tok'[VaultOf(p, escrow[p])] >= tok[VaultOf(p, escrow[p])]

\* C22: every step of the ledger (Make, Take, Refund, a deposit, the creation
\* of a token account, every step of a flash-loan transaction with its Borrow
\* and Repay instructions) leaves each open offer's record unchanged and its
\* vault in existence and not debited, unless the step is a successful Take
\* or Refund pointed at that offer's address.
C22_OpenOfferUntouched ==
    [][\A p \in PdaAddrs : escrow[p].live => (LeavesOpen(p) \/ Settles(p))]_vars

\* C22 witness: a Take of one offer succeeded while another offer was open,
\* and that other offer's record and vault are as they were.
C22_Witness ==
    /\ Done("Take")
    /\ \E p \in PdaAddrs \ {call.a.escrow} :
          /\ escrowSnap[p].live
          /\ escrow[p] = escrowSnap[p]
          /\ Held(tok, VaultOf(p, escrow[p])) > 0
          /\ tok[VaultOf(p, escrow[p])] = txSnap[VaultOf(p, escrow[p])]

\* C22 witness of the flash-loan side: a transaction that borrowed committed
\* on a ledger whose open offer holds its deposit.
C22_LoanCommitted ==
    /\ txStatus = "committed"
    /\ txBorrowed # <<>>
    /\ escrow[OpenOfferPda].live
    /\ tok[OpenOfferVault] = MaxAmount
\* C23: after a successful Make the escrow address is the one derived from
\* ("escrow", maker, seed) and held no record before; its record holds exactly
\* the given seed, the maker, mint_a, mint_b, the given receive and the
\* canonical bump; the associated token account of (escrow address, mint_a)
\* did not exist before and now holds exactly amount; the maker's mint_a
\* account holds exactly amount less; no other account changed.
C23_MakeCreatesOffer ==
    Done("Make") =>
        LET a == call.a
            vault == Ata(a.escrow, a.mint_a)
            maker_ata_a == Ata(Wallet(a.maker), a.mint_a)
        IN
        /\ a.escrow = EscrowPda(a.maker, a.seed)
        /\ ~escrowSnap[a.escrow].live
        /\ escrow[a.escrow] =
              [live |-> TRUE, seed |-> a.seed, maker |-> a.maker, mint_a |-> a.mint_a,
               mint_b |-> a.mint_b, receive |-> a.receive, bump |-> BumpOf(a.maker, a.seed)]
        /\ \A p \in PdaAddrs \ {a.escrow} : escrow[p] = escrowSnap[p]
        /\ a.vault = vault
        /\ ~Exists(txSnap, vault)
        /\ tok[vault] = a.amount
        /\ a.amount > 0
        /\ tok[maker_ata_a] = txSnap[maker_ata_a] - a.amount
        /\ \A x \in TokenAccts \ {vault, maker_ata_a} : tok[x] = txSnap[x]

\* C23 witness: a Make that deposited less than it asks for succeeded.
C23_Witness ==
    /\ Done("Make")
    /\ call.a.amount = 1
    /\ call.a.receive = MaxAmount
    /\ tok[call.a.vault] = 1
\* C24: after a successful Take the taker's account of the record's mint_a
\* holds more by exactly the balance v the offer's vault had when the Take
\* started, whatever was credited to it after Make, and that vault is closed.
C24_TakeEmptiesVault ==
    Done("Take") =>
        LET vault == VaultOf(call.a.escrow, RecordBefore)
            taker_ata_a == Ata(Wallet(call.a.taker), RecordBefore.mint_a)
            v == Held(txSnap, vault)
        IN
        /\ Held(tok, taker_ata_a) = Held(txSnap, taker_ata_a) + v
        /\ ~Exists(tok, vault)
\* C25: after a successful Refund the mint_a account of the record's maker
\* holds more by exactly the balance the offer's vault had when the Refund
\* started, the vault and the record no longer exist, and the reclaim
\* balances of both went to the maker.
C25_RefundClosesOffer ==
    Done("Refund") =>
        LET vault == VaultOf(call.a.escrow, RecordBefore)
            maker_ata_a == Ata(Wallet(RecordBefore.maker), RecordBefore.mint_a)
        IN
        /\ Held(tok, maker_ata_a) = Held(txSnap, maker_ata_a) + Held(txSnap, vault)
        /\ ~Exists(tok, vault)
        /\ ~escrow[call.a.escrow].live
        /\ refund_reclaim(call.a).vault = RecordBefore.maker
        /\ refund_reclaim(call.a).record = RecordBefore.maker
\* C26: a transaction whose first instruction is a Borrow of 0 fails at that
\* instruction: nothing is recorded as borrowed, it never commits, the pool
\* holds what it held at the start, and once it has failed every token
\* account is as at the start.  The error is the invalid-amount error
\* whenever the accounts pass the validation that precedes the handler, and
\* this is so for a Borrow of 0 entered at any point of a transaction.
C26_BorrowRejectsZero ==
    /\ (txStatus # "idle" /\ IsBorrowIx(tx.first) /\ tx.first.amount = 0) =>
          /\ txIdx = 0
          /\ txStatus # "committed"
          /\ txBorrowed = <<>>
          /\ Pool(tok) = Pool(txSnap)
          /\ txStatus = "failed" =>
                /\ tok = txSnap
                /\ Loan(txSnap, tx.signer, tx.first).err = "none" => txErr = "InvalidAmount"
    /\ txStatus = "running" =>
          \A ix \in BorrowIxs :
              ix.amount = 0 =>
                  LET r == borrow(tok, tx.signer, ix, ix.amount) IN
                  /\ r.err # "none"
                  /\ Loan(tok, tx.signer, ix).err = "none" => r.err = "InvalidAmount"

\* C26 witness: a Borrow of 0 by the signer, with the pool funded and a
\* matching Repay as the last instruction, failed with the invalid-amount
\* error.
C26_Witness ==
    /\ txStatus = "failed"
    /\ txErr = "InvalidAmount"
    /\ IsBorrowIx(tx.first)
    /\ tx.first.amount = 0
    /\ tx.len > 1
    /\ LastIsRepayOf(tx.first.acc3, tx.first.acc4)
    /\ Pool(tok) = PoolInit
\* C27: in the Pinocchio program, instruction data <<0>> followed by the 24
\* bytes of (seed, receive, amount) does what Make does with those values,
\* <<1>> what Take does and <<2>> what Refund does; empty data and data with
\* another first byte return InvalidInstructionData whatever the accounts;
\* Make data whose argument block is not 24 bytes long returns an error with
\* no account created, InvalidInstructionData when the maker signed and the
\* maker's mint_a account is valid; no malformed instruction changes an
\* account.
C27_PinocchioDispatch ==
    /\ (Quiescent /\ program = "pinocchio") =>
          /\ \A a \in MakeInputs :
                process_instruction(tok, escrow, <<0>> \o MakeArgs(a.seed, a.receive, a.amount), a)
                    = pinocchio_make(tok, escrow, a)
          /\ \A a \in TakeInputs :
                process_instruction(tok, escrow, <<1>>, a) = pinocchio_take(tok, escrow, a)
          /\ \A a \in RefundInputs :
                process_instruction(tok, escrow, <<2>>, a) = pinocchio_refund(tok, escrow, a)
          /\ \A d \in MalformedData, a \in MalformedInputs :
                LET r == process_instruction(tok, escrow, d, a) IN
                /\ r.err # "none"
                /\ r.tok = tok
                /\ r.escrow = escrow
                /\ (d = <<>> \/ Head(d) # 0) => r.err = "InvalidInstructionData"
                /\ (a.signer = a.maker /\ Exists(tok, a.maker_ata_a)) =>
                      r.err = "InvalidInstructionData"
    /\ call.op = "Malformed" => (call.err # "none" /\ tok = txSnap /\ escrow = escrowSnap)

\* C27 witness: Make data one byte too long, sent by a maker who signed and
\* holds the tokens for an address with no record, was rejected with
\* InvalidInstructionData and neither the record nor the vault exists.
C27_Witness ==
    /\ call.op = "Malformed"
    /\ call.err = "InvalidInstructionData"
    /\ call.a.signer = call.a.maker
    /\ call.a.escrow = EscrowPda(call.a.maker, 7)
    /\ ~escrow[call.a.escrow].live
    /\ \A m \in Mints : ~Exists(tok, Ata(call.a.escrow, m))
    /\ \E m \in Mints : Held(tok, Ata(Wallet(call.a.maker), m)) = MaxAmount
\* Two results are the same to an observer: both are errors, or both are Ok
\* with the same token accounts and the same records.
SameOutcome(r1, r2) ==
    IF r1.err # "none" \/ r2.err # "none"
    THEN r1.err # "none" /\ r2.err # "none"
    ELSE r1.tok = r2.tok /\ r1.escrow = r2.escrow

\* C28: from every state either program reaches, each Make, Take and Refund
\* with the same arguments and accounts fails in both programs or succeeds
\* in both with the same token balances, records and vaults, and a
\* successful Take or Refund sends the reclaim balances of the vault and of
\* the record to the same parties in both.
C28_ProgramsEquivalent ==
    Quiescent =>
        /\ \A a \in MakeInputs :
              SameOutcome(anchor_make(tok, escrow, a), pinocchio_make(tok, escrow, a))
        /\ \A a \in TakeInputs :
              /\ SameOutcome(anchor_take(tok, escrow, a), pinocchio_take(tok, escrow, a))
              /\ anchor_take(tok, escrow, a).err = "none" =>
                    anchor_take_reclaim(a) = pinocchio_take_reclaim(a)
        /\ \A a \in RefundInputs :
              /\ SameOutcome(anchor_refund(tok, escrow, a), pinocchio_refund(tok, escrow, a))
              /\ anchor_refund(tok, escrow, a).err = "none" =>
                    anchor_refund_reclaim(a) = pinocchio_refund_reclaim(a)
RECURSIVE SumHeld(_, _)
\* The sum of the balances the token accounts in S hold in t.
SumHeld(t, S) ==
    IF S = {} THEN 0
    ELSE LET a == CHOOSE x \in S : TRUE IN Held(t, a) + SumHeld(t, S \ {a})

\* The supply of mint m held by all token accounts: wallets, vaults and the
\* pool.
Supply(t, m) == SumHeld(t, {a \in TokenAccts : a[2] = m})

MakerRefund(p) ==
    [signer |-> escrow[p].maker, maker |-> escrow[p].maker, escrow |-> p,
     mint_a |-> escrow[p].mint_a, vault |-> VaultOf(p, escrow[p]),
     maker_ata_a |-> Ata(Wallet(escrow[p].maker), escrow[p].mint_a)]

\* C30: whenever the ledger takes the next instruction and a record exists,
\* the Refund its recorded maker sends for it succeeds, closes the record
\* and returns the vault's balance.
C30_MakerCanAlwaysRefund ==
    Quiescent =>
        \A p \in PdaAddrs :
            escrow[p].live =>
                LET r == refund(tok, escrow, MakerRefund(p)) IN
                /\ r.err = "none"
                /\ ~r.escrow[p].live
                /\ ~Exists(r.tok, VaultOf(p, escrow[p]))

\* C30 witness: an offer whose vault held at least MaxAmount was refunded
\* by its recorded maker with the record's mint_a and vault, while the other
\* escrow address held no record.
C30_Witness ==
    /\ Done("Refund")
    /\ call.a = [signer |-> RecordBefore.maker, maker |-> RecordBefore.maker,
                 escrow |-> call.a.escrow, mint_a |-> RecordBefore.mint_a,
                 vault |-> VaultOf(call.a.escrow, RecordBefore),
                 maker_ata_a |-> Ata(Wallet(RecordBefore.maker), RecordBefore.mint_a)]
    /\ Held(txSnap, VaultOf(call.a.escrow, RecordBefore)) > MaxAmount - 1
    /\ \E p \in PdaAddrs \ {call.a.escrow} : ~escrow[p].live

\* A Make for the address p that its maker signs, asks for and deposits a
\* nonzero amount the maker holds.
FundedMake(t, a, p) ==
    /\ a.escrow = p
    /\ a.signer = a.maker
    /\ p = EscrowPda(a.maker, a.seed)
    /\ a.receive > 0
    /\ a.amount > 0
    /\ Held(t, a.maker_ata_a) >= a.amount

\* C31: once a Take or a Refund has closed the record at the address of
\* (maker, seed), every Make the maker signs for that (maker, seed), with
\* nonzero amounts the maker holds, succeeds: the record holds the fields of
\* the new call and the vault holds exactly the new deposit.
C31_MakeAfterSettlement ==
    (Done("Take") \/ Done("Refund")) =>
        \A a \in MakeInputs :
            FundedMake(tok, a, call.a.escrow) =>
                LET r == make(tok, escrow, a) IN
                /\ r.err = "none"
                /\ r.escrow[a.escrow] = NewRecord(a, a.receive)
                /\ r.tok[a.vault] = a.amount
====
